---- MODULE Spec2Model ----
(***************************************************************************)
(* Conversation ownership and priority escalation of the messaging         *)
(* backend (backend/app/api).  Every HTTP handler runs in its own database *)
(* session; a handler is a process whose steps are the stretches of code   *)
(* between two awaits that touch the record store or the connection        *)
(* manager.  A session keeps the Conversation object it loaded (req.conv)  *)
(* and flushes, at commit, only the attributes it changed.                 *)
(*                                                                         *)
(* NULL / None is 0 for integer columns and "" for enum columns.           *)
(* The updated_at / last_activity / created_at columns are not modelled:   *)
(* no handler modelled here branches on them (the ORDER BY of the          *)
(* open-conversation query is consumed by scalar_one_or_none, which does   *)
(* not pick a row).                                                        *)
(***************************************************************************)
EXTENDS Integers, Sequences, FiniteSets, TLC

\* ------------------------------------------------------------------ bounds
MaxRequests == 2      \* requests issued in one behaviour, each by its own handler
MaxChannels == 2      \* websocket connections opened in one behaviour
MaxFrames == 2        \* client frames read from one websocket connection

\* ------------------------------------------------------------- seed data
Agents == {1, 2}                \* rows of the agents table (never deleted)
AgentIds == Agents \cup {3}     \* ids a caller may name; 3 has no row
SeedCustomers == {1, 2}         \* rows of the customers table at start
Requests == 1..MaxRequests
Channels == 1..MaxChannels      \* connection handles

\* ------------------------------------------------------------------ enums
LOW == "low"
MEDIUM == "medium"
HIGH == "high"
URGENT == "urgent"
MessagePriority == {LOW, MEDIUM, HIGH, URGENT}

OPEN == "open"
IN_PROGRESS == "in_progress"
RESOLVED == "resolved"
CLOSED == "closed"
MessageStatus == {OPEN, IN_PROGRESS, RESOLVED, CLOSED}

VARIABLES conversations, messages, customers, events, req

\* The connection manager and the websocket endpoints:
\*   active_connections  channels registered with the manager
\*   agent_viewing       agent id -> conversation ids the agent is viewing
\*   ws                  per channel, the endpoint coroutine and its transport
\*   inbox               per channel, the events the client has been sent
\*   online              agent id -> the presence flag of the agent
VARIABLES active_connections, agent_viewing, ws, inbox, online

hub == <<active_connections, agent_viewing, ws, inbox, online>>

vars == <<conversations, messages, customers, events, req, hub>>

\* --------------------------------------------------------------- records
NoRow == [id |-> 0, customer_id |-> 0, agent_id |-> 0, status |-> "", priority |-> ""]

Idle == [op |-> "idle", pc |-> "idle", conversation_id |-> 0, agent_id |-> 0,
         force |-> FALSE, customer_id |-> 0, customer_email |-> 0,
         priority |-> "", upd_status |-> "", upd_priority |-> "", upd_agent |-> -1,
         created |-> FALSE, conv |-> NoRow, code |-> 0, detail |-> 0]

\* select(Conversation).where(Conversation.id == conversation_id) ... scalar_one_or_none()
SelectConversation(conversation_id) ==
    IF conversation_id \in 1..Len(conversations) THEN conversations[conversation_id] ELSE NoRow

\* The lookup that takes any id for an agent
SelectAgent_Unverified(agent_id) == agent_id

\* select(Agent).where(Agent.id == agent_id) ... scalar_one_or_none(); 0 is None
SelectAgent(agent_id) == IF agent_id \in Agents THEN agent_id ELSE 0

\* The UPDATE a session emits at commit: only the attributes whose value
\* differs from the one the session loaded are written to the row.
Flush(row, loaded, obj) ==
    [id |-> row.id,
     customer_id |-> row.customer_id,
     agent_id |-> IF obj.agent_id # loaded.agent_id THEN obj.agent_id ELSE row.agent_id,
     status |-> IF obj.status # loaded.status THEN obj.status ELSE row.status,
     priority |-> IF obj.priority # loaded.priority THEN obj.priority ELSE row.priority]

\* ------------------------------------------------------ connection manager
Event(type, conversation_id, agent_id, customer_id, priority, status) ==
    [type |-> type, conversation_id |-> conversation_id, agent_id |-> agent_id,
     customer_id |-> customer_id, priority |-> priority, status |-> status]

broadcast_conversation_update(conversation_id, agent_id, priority, status) ==
    Append(events, Event("ConversationUpdated", conversation_id, agent_id, 0, priority, status))

broadcast_new_message(conversation_id, agent_id, customer_id, priority) ==
    Append(events, Event("NewMessage", conversation_id, agent_id, customer_id, priority, ""))

broadcast_new_conversation(conversation_id, customer_id, priority, status) ==
    Append(events, Event("NewConversation", conversation_id, 0, customer_id, priority, status))

\* manager.send_personal_message(message, websocket)
send_personal_message(type, agent_id, ch) ==
    [inbox EXCEPT ![ch] = Append(@, Event(type, 0, agent_id, 0, "", ""))]

\* unregisterConnection for the channels the manager removes itself: an agent
\* whose last registered channel is among them goes offline.
Unregistered(removed) ==
    [a \in Agents |->
        IF /\ \E ch \in removed : ws[ch].agent_id = a
           /\ \A ch \in active_connections \ removed : ws[ch].agent_id # a
        THEN FALSE ELSE online[a]]

\* Delivery that ends at the first channel whose transport has failed
SendTo_StopsAtFailure(recipients, message) ==
    /\ inbox' = [ch \in Channels |->
                    IF /\ ch \in recipients \cap active_connections
                       /\ \A first \in recipients \cap active_connections :
                             first <= ch => ws[first].alive
                    THEN Append(inbox[ch], message) ELSE inbox[ch]]
    /\ active_connections' =
          {ch \in active_connections : ch \in recipients => ws[ch].alive}
    /\ online' = Unregistered({ch \in active_connections \cap recipients : ~ws[ch].alive})

\* Delivery of message to the registered channels among recipients: a channel
\* whose transport has failed or hangs is removed, the others get the
\* message, nothing is raised to the caller.
SendTo(recipients, message) ==
    /\ inbox' = [ch \in Channels |->
                    IF ch \in recipients \cap active_connections /\ ws[ch].alive
                    THEN Append(inbox[ch], message) ELSE inbox[ch]]
    /\ active_connections' =
          {ch \in active_connections : ch \in recipients => ws[ch].alive}
    /\ online' = Unregistered({ch \in active_connections \cap recipients : ~ws[ch].alive})

\* manager.broadcast_*: the event just handed to the manager goes to every
\* registered channel.
broadcast ==
    /\ SendTo(Channels, events'[Len(events')])
    /\ UNCHANGED <<agent_viewing, ws>>

\* viewersOf(conversation_id), as channels
ViewerChannels(conversation_id) ==
    {ch \in Channels : /\ ws[ch].agent_id \in Agents
                       /\ conversation_id \in agent_viewing[ws[ch].agent_id]}

\* manager.notify_agent_typing(conversation_id, agent_id, is_typing)
notify_agent_typing(conversation_id, agent_id) ==
    SendTo(ViewerChannels(conversation_id),
           Event("AgentTyping", conversation_id, agent_id, 0, "", ""))

\* manager.set_agent_viewing(agent_id, conversation_id)
set_agent_viewing(agent_id, conversation_id) ==
    IF agent_id \in DOMAIN agent_viewing
    THEN [agent_viewing EXCEPT ![agent_id] = @ \cup {conversation_id}]
    ELSE agent_viewing

\* manager.remove_agent_viewing(agent_id, conversation_id)
remove_agent_viewing(agent_id, conversation_id) ==
    IF agent_id \in DOMAIN agent_viewing
    THEN [agent_viewing EXCEPT ![agent_id] = @ \ {conversation_id}]
    ELSE agent_viewing

\* manager.connect(websocket, agent_id): the channel is registered and the
\* agent is online.
connect(ch, agent_id) ==
    /\ active_connections' = active_connections \cup {ch}
    /\ online' = IF agent_id \in DOMAIN online
                 THEN [online EXCEPT ![agent_id] = TRUE] ELSE online

\* disconnect that removes every channel of the agent
disconnect_ByAgent(ch, agent_id) ==
    /\ active_connections' =
          {other \in active_connections \ {ch} : ws[other].agent_id # agent_id}
    /\ online' = IF agent_id \in DOMAIN online
                 THEN [online EXCEPT ![agent_id] = FALSE] ELSE online
    /\ UNCHANGED agent_viewing

\* manager.disconnect(websocket, agent_id): the channel is unregistered (a
\* no-op when it is not registered) and the agent is offline when no channel
\* of the agent remains; when it was the agent's last channel the viewing set
\* is kept or cleared.
disconnect(ch, agent_id) ==
    /\ active_connections' = active_connections \ {ch}
    /\ online' = IF /\ agent_id \in DOMAIN online
                    /\ \A other \in active_connections \ {ch} : ws[other].agent_id # agent_id
                 THEN [online EXCEPT ![agent_id] = FALSE] ELSE online
    /\ \/ UNCHANGED agent_viewing
       \/ /\ agent_id \in DOMAIN agent_viewing
          /\ agent_viewing[agent_id] # {}
          /\ \A other \in active_connections \ {ch} : ws[other].agent_id # agent_id
          /\ agent_viewing' = [agent_viewing EXCEPT ![agent_id] = {}]

\* ------------------------------------------------------------ request flow
\* Request r has not been served yet.  A handler touches nothing shared before
\* its first query, so a request starts with that query; requests are numbered
\* in the order of their first query.
Fresh(r) ==
    /\ req[r].op = "idle"
    /\ \A q \in Requests : q < r => req[q].op # "idle"

\* The handler goes on to pc with the Conversation object conv in its session.
Goto(r, call, pc, conv) ==
    req' = [req EXCEPT ![r] = [call EXCEPT !.pc = pc, !.conv = conv]]

\* raise HTTPException(status_code, detail) / return: the handler is over
Respond(r, call, code, detail, conv) ==
    req' = [req EXCEPT ![r] = [call EXCEPT !.pc = "done", !.code = code,
                                          !.detail = detail, !.conv = conv]]

\* ------------------------------------------------------ assign_conversation
\* AssignConflict with the force flag left out of the condition
AssignConflict_NoForce(conv, agent_id, force) ==
    conv.agent_id # 0 /\ conv.agent_id # agent_id

\* AssignConflict that does not let the owner itself through
AssignConflict_NoSelf(conv, agent_id, force) ==
    conv.agent_id # 0 /\ ~force

\* conversations.py:292
AssignConflict(conv, agent_id, force) ==
    conv.agent_id # 0 /\ conv.agent_id # agent_id /\ ~force

\* CurrentAgentName that looks the agent up by the conversation's id
CurrentAgentName_ByConversationId(conv) == SelectAgent(conv.id)

\* conversations.py:294-298: the owner's name, the agent with id k being
\* named k; 0 stands for the literal "another agent"
CurrentAgentName(conv) == SelectAgent(conv.agent_id)

assign_read(r) ==
    /\ Fresh(r)
    /\ \E conversation_id \in 1..(Len(conversations) + 1), agent_id \in AgentIds, force \in BOOLEAN :
          LET call == [Idle EXCEPT !.op = "assign_conversation", !.conversation_id = conversation_id,
                                   !.agent_id = agent_id, !.force = force]
              conv == SelectConversation(conversation_id) IN
          IF conv.id = 0
          THEN Respond(r, call, 404, 0, conv)
          ELSE IF AssignConflict(conv, agent_id, force)
          THEN Respond(r, call, 409, CurrentAgentName(conv), conv)
          ELSE IF SelectAgent(agent_id) = 0
          THEN Respond(r, call, 404, 0, conv)
          ELSE Goto(r, call, "commit", conv)
    /\ UNCHANGED <<conversations, messages, customers, events, hub>>

\* conversations.py:313  conversation.agent_id = agent_id
AssignUpdate(conv, agent_id) == [conv EXCEPT !.agent_id = agent_id]

assign_commit(r) ==
    /\ req[r].op = "assign_conversation" /\ req[r].pc = "commit"
    /\ LET c == req[r].conversation_id
           obj == AssignUpdate(req[r].conv, req[r].agent_id) IN
          conversations' = [conversations EXCEPT ![c] = Flush(@, req[r].conv, obj)]
    /\ req' = [req EXCEPT ![r].pc = "broadcast"]
    /\ UNCHANGED <<messages, customers, events, hub>>

assign_broadcast(r) ==
    /\ req[r].op = "assign_conversation" /\ req[r].pc = "broadcast"
    /\ events' = broadcast_conversation_update(req[r].conv.id, req[r].agent_id, "", "")
    /\ Respond(r, req[r], 200, req[r].agent_id, req[r].conv)
    /\ UNCHANGED <<conversations, messages, customers>>
    /\ broadcast

\* ----------------------------------------------------- release_conversation
\* NotOwner that lets an unowned conversation through
NotOwner_UnownedPasses(conv, agent_id) == conv.agent_id # 0 /\ conv.agent_id # agent_id

\* conversations.py:345
NotOwner(conv, agent_id) == conv.agent_id # agent_id

\* ReleaseUpdate that also puts the conversation back in the open queue
ReleaseUpdate_Reopens(conv) == [conv EXCEPT !.agent_id = 0, !.status = OPEN]

\* conversations.py:351  conversation.agent_id = None
ReleaseUpdate(conv) == [conv EXCEPT !.agent_id = 0]

release_read(r) ==
    /\ Fresh(r)
    /\ \E conversation_id \in 1..(Len(conversations) + 1), agent_id \in AgentIds :
          LET call == [Idle EXCEPT !.op = "release_conversation", !.conversation_id = conversation_id,
                                   !.agent_id = agent_id]
              conv == SelectConversation(conversation_id) IN
          IF conv.id = 0
          THEN Respond(r, call, 404, 0, conv)
          ELSE IF NotOwner(conv, agent_id)
          THEN Respond(r, call, 403, 0, conv)
          ELSE Goto(r, call, "commit", conv)
    /\ UNCHANGED <<conversations, messages, customers, events, hub>>

release_commit(r) ==
    /\ req[r].op = "release_conversation" /\ req[r].pc = "commit"
    /\ LET c == req[r].conversation_id
           obj == ReleaseUpdate(req[r].conv) IN
          conversations' = [conversations EXCEPT ![c] = Flush(@, req[r].conv, obj)]
    /\ req' = [req EXCEPT ![r].pc = "broadcast"]
    /\ UNCHANGED <<messages, customers, events, hub>>

release_broadcast(r) ==
    /\ req[r].op = "release_conversation" /\ req[r].pc = "broadcast"
    /\ events' = broadcast_conversation_update(req[r].conv.id, 0, "", "")
    /\ Respond(r, req[r], 200, 0, req[r].conv)
    /\ UNCHANGED <<conversations, messages, customers>>
    /\ broadcast

\* ------------------------------------------------------- send_agent_message
Message(conversation_id, customer_id, agent_id, is_from_customer, priority) ==
    [conversation_id |-> conversation_id, customer_id |-> customer_id, agent_id |-> agent_id,
     is_from_customer |-> is_from_customer, priority |-> priority]

\* AssignedToAnother with the comparison inverted
AssignedToAnother_Inverted(conv, agent_id) == conv.agent_id # 0 /\ conv.agent_id = agent_id

\* conversations.py:201
AssignedToAnother(conv, agent_id) == conv.agent_id # 0 /\ conv.agent_id # agent_id

\* AgentMessageUpdate without the first-responder claim
AgentMessageUpdate_NoClaim(conv, agent_id) ==
    [conv EXCEPT !.status = IF conv.status = OPEN THEN IN_PROGRESS ELSE conv.status]

\* conversations.py:227-230
AgentMessageUpdate(conv, agent_id) ==
    [conv EXCEPT !.agent_id = IF conv.agent_id = 0 THEN agent_id ELSE conv.agent_id,
                 !.status = IF conv.status = OPEN THEN IN_PROGRESS ELSE conv.status]

agent_message_read(r) ==
    /\ Fresh(r)
    /\ \E conversation_id \in 1..(Len(conversations) + 1), agent_id \in AgentIds :
          LET call == [Idle EXCEPT !.op = "send_agent_message", !.conversation_id = conversation_id,
                                   !.agent_id = agent_id]
              conv == SelectConversation(conversation_id) IN
          IF conv.id = 0
          THEN Respond(r, call, 404, 0, conv)
          ELSE IF AssignedToAnother(conv, agent_id)
          THEN Respond(r, call, 403, 0, conv)
          ELSE IF SelectAgent(agent_id) = 0
          THEN Respond(r, call, 404, 0, conv)
          ELSE Goto(r, call, "commit", conv)
    /\ UNCHANGED <<conversations, messages, customers, events, hub>>

agent_message_commit(r) ==
    /\ req[r].op = "send_agent_message" /\ req[r].pc = "commit"
    /\ LET c == req[r].conversation_id
           obj == AgentMessageUpdate(req[r].conv, req[r].agent_id) IN
          conversations' = [conversations EXCEPT ![c] = Flush(@, req[r].conv, obj)]
    /\ messages' = Append(messages, Message(req[r].conversation_id, 0, req[r].agent_id, FALSE, MEDIUM))
    /\ req' = [req EXCEPT ![r].pc = "broadcast"]
    /\ UNCHANGED <<customers, events, hub>>

agent_message_broadcast(r) ==
    /\ req[r].op = "send_agent_message" /\ req[r].pc = "broadcast"
    /\ events' = broadcast_new_message(req[r].conversation_id, req[r].agent_id, 0, MEDIUM)
    /\ Respond(r, req[r], 200, 0, req[r].conv)
    /\ UNCHANGED <<conversations, messages, customers>>
    /\ broadcast

\* ------------------------------------------------- customer message intake
\* MessagePriority(str, enum.Enum): .value is the lower-case name, a str
value(p) ==
    CASE p = LOW -> <<108, 111, 119>>
      [] p = MEDIUM -> <<109, 101, 100, 105, 117, 109>>
      [] p = HIGH -> <<104, 105, 103, 104>>
      [] p = URGENT -> <<117, 114, 103, 101, 110, 116>>

\* Python's > on two str: lexicographic on code points
RECURSIVE StrGreater(_, _)
StrGreater(a, b) ==
    IF a = <<>> THEN FALSE
    ELSE IF b = <<>> THEN TRUE
    ELSE IF Head(a) # Head(b) THEN Head(a) > Head(b)
    ELSE StrGreater(Tail(a), Tail(b))

\* external.py:93-98
priority_order(p) ==
    CASE p = LOW -> 0
      [] p = MEDIUM -> 1
      [] p = HIGH -> 2
      [] p = URGENT -> 3

\* customers.py:188-189
CustomerEscalate(conv, priority) ==
    IF StrGreater(value(priority), value(conv.priority))
    THEN [conv EXCEPT !.priority = priority] ELSE conv

\* external.py:99-100
ExternalEscalate(conv, priority) ==
    IF priority_order(priority) > priority_order(conv.priority)
    THEN [conv EXCEPT !.priority = priority] ELSE conv

\* The query that takes a RESOLVED conversation as well
OpenConversations_WithResolved(customer_id) ==
    {c \in 1..Len(conversations) :
        /\ conversations[c].customer_id = customer_id
        /\ conversations[c].status \in {OPEN, IN_PROGRESS, RESOLVED}}

\* select(Conversation).where(customer_id == ..., status.in_([OPEN, IN_PROGRESS]))
OpenConversations(customer_id) ==
    {c \in 1..Len(conversations) :
        /\ conversations[c].customer_id = customer_id
        /\ conversations[c].status \in {OPEN, IN_PROGRESS}}

\* The query and what the handler does with its result: scalar_one_or_none()
\* raises MultipleResultsFound on more than one row, which no handler catches.
FindConversation(r, call) ==
    LET rows == OpenConversations(call.customer_id) IN
    IF Cardinality(rows) > 1
    THEN Respond(r, call, 500, 0, NoRow)
    ELSE IF rows = {}
    THEN Goto(r, call, "create", NoRow)
    ELSE Goto(r, call, "commit", conversations[CHOOSE c \in rows : TRUE])

\* The {customer_id} a caller puts in the path: a seeded customer, and an id
\* without a row
CustomerPathIds == {1, 3}

\* customers.py:146-162
customer_message_find(r) ==
    /\ Fresh(r)
    /\ \E customer_id \in CustomerPathIds, priority \in MessagePriority :
          LET call == [Idle EXCEPT !.op = "send_customer_message", !.customer_id = customer_id,
                                   !.priority = priority] IN
          IF customer_id \notin customers
          THEN Respond(r, call, 404, 0, NoRow)
          ELSE FindConversation(r, call)
    /\ UNCHANGED <<conversations, messages, customers, events, hub>>

\* external.py:26-46, and 61-67 when the customer exists.  The customer with
\* id k has the e-mail address k.
\* <<customer_id, customer_email>> of the payload, 0 when the field is absent
ExternalInputs == {<<1, 0>>, <<0, 3>>, <<0, 0>>}

external_message_read(r) ==
    /\ Fresh(r)
    /\ \E in \in ExternalInputs, priority \in MessagePriority :
          LET byId == IF in[1] # 0 /\ in[1] \in customers THEN in[1] ELSE 0
              customer == IF byId = 0 /\ in[2] # 0 /\ in[2] \in customers THEN in[2] ELSE byId
              call == [Idle EXCEPT !.op = "receive_external_message", !.customer_id = customer,
                                   !.customer_email = in[2], !.priority = priority] IN
          IF customer # 0
          THEN FindConversation(r, call)
          ELSE IF in[2] = 0
          THEN Respond(r, call, 400, 0, NoRow)
          ELSE Goto(r, call, "customer", NoRow)
    /\ UNCHANGED <<conversations, messages, customers, events, hub>>

\* external.py:48-55: INSERT the customer; customers.email is unique
external_message_customer(r) ==
    /\ req[r].op = "receive_external_message" /\ req[r].pc = "customer"
    /\ IF req[r].customer_email \in customers
       THEN /\ Respond(r, req[r], 500, 0, NoRow)
            /\ UNCHANGED customers
       ELSE /\ customers' = customers \cup {req[r].customer_email}
            /\ req' = [req EXCEPT ![r].pc = "find", ![r].customer_id = req[r].customer_email]
    /\ UNCHANGED <<conversations, messages, events, hub>>

\* external.py:61-67 for a customer the handler has just created
external_message_find(r) ==
    /\ req[r].op = "receive_external_message" /\ req[r].pc = "find"
    /\ FindConversation(r, req[r])
    /\ UNCHANGED <<conversations, messages, customers, events, hub>>

IsCustomerMessage(r) == req[r].op \in {"send_customer_message", "receive_external_message"}

\* customers.py:166-173, external.py:71-78: INSERT the conversation
\* The new conversation left at the priority column's default
NewConversation_DefaultPriority(customer_id, priority) ==
    [id |-> Len(conversations) + 1, customer_id |-> customer_id,
     agent_id |-> 0, status |-> OPEN, priority |-> MEDIUM]

\* customers.py:166-171, external.py:71-76
NewConversation(customer_id, priority) ==
    [id |-> Len(conversations) + 1, customer_id |-> customer_id,
     agent_id |-> 0, status |-> OPEN, priority |-> priority]

\* The conversation stored and its message stored next, the conversation never
\* announced
customer_message_create_Unannounced(r) ==
    /\ IsCustomerMessage(r) /\ req[r].pc = "create"
    /\ LET row == NewConversation(req[r].customer_id, req[r].priority) IN
          /\ conversations' = Append(conversations, row)
          /\ req' = [req EXCEPT ![r].pc = "commit", ![r].created = TRUE, ![r].conv = row]
    /\ UNCHANGED <<messages, customers, events, hub>>

\* customers.py:164-173, external.py:69-78: the conversation is stored, then
\* refreshed and announced before the message is stored
customer_message_create(r) ==
    /\ IsCustomerMessage(r) /\ req[r].pc = "create"
    /\ LET row == NewConversation(req[r].customer_id, req[r].priority) IN
          /\ conversations' = Append(conversations, row)
          /\ req' = [req EXCEPT ![r].pc = "refresh", ![r].created = TRUE, ![r].conv = row]
    /\ UNCHANGED <<messages, customers, events, hub>>

\* customers.py:174, external.py:79: await db.refresh(conversation)
customer_message_refresh(r) ==
    /\ IsCustomerMessage(r) /\ req[r].pc = "refresh"
    /\ req' = [req EXCEPT ![r].pc = "announce", ![r].conv = SelectConversation(req[r].conv.id)]
    /\ UNCHANGED <<conversations, messages, customers, events, hub>>

\* customers.py:177-185, external.py:82-90
customer_message_announce(r) ==
    /\ IsCustomerMessage(r) /\ req[r].pc = "announce"
    /\ events' = broadcast_new_conversation(req[r].conv.id, req[r].conv.customer_id,
                                            req[r].conv.priority, req[r].conv.status)
    /\ req' = [req EXCEPT ![r].pc = "commit"]
    /\ UNCHANGED <<conversations, messages, customers>>
    /\ broadcast

\* The message announced without having been stored
customer_message_commit_Unstored(r) ==
    /\ IsCustomerMessage(r) /\ req[r].pc = "commit"
    /\ req' = [req EXCEPT ![r].pc = "broadcast"]
    /\ UNCHANGED <<conversations, messages, customers, events, hub>>

\* customers.py:186-206, external.py:91-117
customer_message_commit(r) ==
    /\ IsCustomerMessage(r) /\ req[r].pc = "commit"
    /\ LET c == req[r].conv.id
           obj == IF req[r].created THEN req[r].conv
                  ELSE IF req[r].op = "send_customer_message"
                  THEN CustomerEscalate(req[r].conv, req[r].priority)
                  ELSE ExternalEscalate(req[r].conv, req[r].priority) IN
          conversations' = [conversations EXCEPT ![c] = Flush(@, req[r].conv, obj)]
    /\ messages' = Append(messages, Message(req[r].conv.id, req[r].customer_id, 0, TRUE, req[r].priority))
    /\ req' = [req EXCEPT ![r].pc = "broadcast"]
    /\ UNCHANGED <<customers, events, hub>>

\* customers.py:209-220, external.py:120-139
customer_message_broadcast(r) ==
    /\ IsCustomerMessage(r) /\ req[r].pc = "broadcast"
    /\ events' = broadcast_new_message(req[r].conv.id, 0, req[r].customer_id, req[r].priority)
    /\ Respond(r, req[r], 200, 0, req[r].conv)
    /\ UNCHANGED <<conversations, messages, customers>>
    /\ broadcast

\* ------------------------------------------------------ update_conversation
\* The bodies of PUT /conversations/{id}: one field set, or none ("" and -1
\* are fields left unset; agent_id 0 is an explicit null).
UpdatePayloads ==
    {[status |-> st, priority |-> "", agent_id |-> -1] : st \in MessageStatus}
    \cup {[status |-> "", priority |-> p, agent_id |-> -1] : p \in MessagePriority}
    \cup {[status |-> "", priority |-> "", agent_id |-> a] : a \in {0} \cup AgentIds}
    \cup {[status |-> "", priority |-> "", agent_id |-> -1]}

\* conversations.py:163-165
ConversationUpdateApply(conv, call) ==
    [conv EXCEPT !.status = IF call.upd_status # "" THEN call.upd_status ELSE @,
                 !.priority = IF call.upd_priority # "" THEN call.upd_priority ELSE @,
                 !.agent_id = IF call.upd_agent # -1 THEN call.upd_agent ELSE @]

update_read(r) ==
    /\ Fresh(r)
    /\ \E conversation_id \in 1..(Len(conversations) + 1), update \in UpdatePayloads :
          LET call == [Idle EXCEPT !.op = "update_conversation",
                                   !.conversation_id = conversation_id,
                                   !.upd_status = update.status,
                                   !.upd_priority = update.priority,
                                   !.upd_agent = update.agent_id]
              conv == SelectConversation(conversation_id) IN
          IF conv.id = 0
          THEN Respond(r, call, 404, 0, conv)
          ELSE Goto(r, call, "commit", conv)
    /\ UNCHANGED <<conversations, messages, customers, events, hub>>

\* conversations.py:163-168; the session keeps the values it has set.  An
\* agent_id without a row in agents is stored where the database does not
\* enforce the foreign key (SQLite, the default DATABASE_URL, without the
\* foreign_keys pragma) and fails the commit where it does.
update_commit(r) ==
    /\ req[r].op = "update_conversation" /\ req[r].pc = "commit"
    /\ LET c == req[r].conversation_id
           obj == ConversationUpdateApply(req[r].conv, req[r]) IN
          \/ /\ conversations' = [conversations EXCEPT ![c] = Flush(@, req[r].conv, obj)]
             /\ Goto(r, req[r], "refresh", obj)
          \/ /\ obj.agent_id # req[r].conv.agent_id
             /\ SelectAgent(obj.agent_id) = 0 /\ obj.agent_id # 0
             /\ Respond(r, req[r], 500, 0, req[r].conv)
             /\ UNCHANGED conversations
    /\ UNCHANGED <<messages, customers, events, hub>>

\* conversations.py:169
update_refresh(r) ==
    /\ req[r].op = "update_conversation" /\ req[r].pc = "refresh"
    /\ Goto(r, req[r], "broadcast", SelectConversation(req[r].conversation_id))
    /\ UNCHANGED <<conversations, messages, customers, events, hub>>

\* conversations.py:172-179
update_broadcast(r) ==
    /\ req[r].op = "update_conversation" /\ req[r].pc = "broadcast"
    /\ events' = broadcast_conversation_update(req[r].conv.id, req[r].conv.agent_id,
                                               req[r].conv.priority, req[r].conv.status)
    /\ Respond(r, req[r], 200, 0, req[r].conv)
    /\ UNCHANGED <<conversations, messages, customers>>
    /\ broadcast

\* ------------------------------------------------------ websocket_endpoint
\* A text frame of the client: text that is not JSON, JSON that is not an
\* object, or an object with a "type" and a "data" that is absent, not an
\* object, or an object with a conversation_id (0: none).  The is_typing flag
\* only travels in the payload.
NoFrame == [json |-> "", type |-> "", data |-> "", conversation_id |-> 0]

Frame(json, type, data, conversation_id) ==
    [json |-> json, type |-> type, data |-> data, conversation_id |-> conversation_id]

SignalTypes == {"typing", "viewing", "stop_viewing"}

FrameConversationIds == {0, 1, 2}

Frames ==
    {Frame("invalid", "", "", 0), Frame("nonobject", "", "", 0)}
    \cup {Frame("object", t, "absent", 0) : t \in {"ping", "other"}}
    \cup {Frame("object", t, "nonobject", 0) : t \in SignalTypes}
    \cup {Frame("object", t, "object", c) : t \in SignalTypes, c \in FrameConversationIds}

\* The endpoint that answers an unrecognised type like text that is not JSON
InvalidJson_OrUnknownType(frame) == frame.json = "invalid" \/ frame.type = "other"

\* websocket.py:31 json.loads(data) raises JSONDecodeError
InvalidJson(frame) == frame.json = "invalid"

\* websocket.py:32, 43, 53, 59: .get on a value that is not a dict raises
\* AttributeError
RaisesAttributeError(frame) ==
    \/ frame.json = "nonobject"
    \/ frame.json = "object" /\ frame.type \in SignalTypes /\ frame.data = "nonobject"

\* The endpoint before the connection, and the state it is given by connect
NoSocket == [pc |-> "new", agent_id |-> 0, alive |-> FALSE, frames |-> 0, data |-> NoFrame,
             cleanup |-> ""]

\* The endpoint is over after manager.disconnect; cleanup records whether the
\* channel was still registered when it ran.
Over(socket, ch) ==
    [socket EXCEPT !.pc = "done",
                   !.cleanup = IF ch \in active_connections THEN "removed" ELSE "absent"]

\* The endpoint that sends no confirmation
ConnectionConfirmation_Omitted(ch, agent_id) == inbox

\* websocket.py:21
ConnectionConfirmation(ch, agent_id) == send_personal_message("connected", agent_id, ch)

\* websocket.py:17-24: the connection is accepted and registered, and the
\* confirmation is its first event
ws_connect(ch) ==
    /\ ws[ch].pc = "new"
    /\ \A other \in Channels : other < ch => ws[other].pc # "new"
    /\ \E agent_id \in {0} \cup Agents :
          /\ ws' = [ws EXCEPT ![ch] = [NoSocket EXCEPT !.pc = "receive", !.alive = TRUE,
                                                       !.agent_id = agent_id]]
          /\ inbox' = ConnectionConfirmation(ch, agent_id)
          /\ connect(ch, agent_id)
    /\ UNCHANGED <<conversations, messages, customers, events, req, agent_viewing>>

\* The stop_viewing branch that calls set_agent_viewing
ViewingSignal_NeverRemoves(frame, agent_id) ==
    IF frame.conversation_id # 0 /\ agent_id # 0
    THEN set_agent_viewing(agent_id, frame.conversation_id)
    ELSE agent_viewing

\* websocket.py:51-61
ViewingSignal(frame, agent_id) ==
    IF frame.conversation_id # 0 /\ agent_id # 0
    THEN IF frame.type = "viewing"
         THEN set_agent_viewing(agent_id, frame.conversation_id)
         ELSE remove_agent_viewing(agent_id, frame.conversation_id)
    ELSE agent_viewing

\* websocket.py:28-73: one frame is read and handled, up to the next
\* receive_text or to the end of the endpoint
ws_receive(ch) ==
    /\ ws[ch].pc = "receive" /\ ws[ch].alive /\ ws[ch].frames < MaxFrames
    /\ \E frame \in Frames :
          LET agent_id == ws[ch].agent_id
              read == [ws[ch] EXCEPT !.frames = @ + 1, !.data = frame] IN
          IF InvalidJson(frame)
          THEN /\ inbox' = send_personal_message("error", 0, ch)
               /\ ws' = [ws EXCEPT ![ch] = read]
               /\ UNCHANGED <<active_connections, agent_viewing, online>>
          ELSE IF RaisesAttributeError(frame)
          THEN /\ disconnect(ch, agent_id)
               /\ ws' = [ws EXCEPT ![ch] = Over(read, ch)]
               /\ UNCHANGED inbox
          ELSE IF frame.type = "ping"
          THEN /\ inbox' = send_personal_message("pong", 0, ch)
               /\ ws' = [ws EXCEPT ![ch] = read]
               /\ UNCHANGED <<active_connections, agent_viewing, online>>
          ELSE IF frame.type = "typing" /\ frame.conversation_id # 0 /\ agent_id # 0
          THEN /\ notify_agent_typing(frame.conversation_id, agent_id)
               /\ ws' = [ws EXCEPT ![ch] = read]
               /\ UNCHANGED agent_viewing
          ELSE IF frame.type \in {"viewing", "stop_viewing"}
          THEN /\ agent_viewing' = ViewingSignal(frame, agent_id)
               /\ ws' = [ws EXCEPT ![ch] = read]
               /\ UNCHANGED <<active_connections, inbox, online>>
          ELSE /\ ws' = [ws EXCEPT ![ch] = read]
               /\ UNCHANGED <<active_connections, agent_viewing, inbox, online>>
    /\ UNCHANGED <<conversations, messages, customers, events, req>>

\* The transport of the channel fails or hangs; the endpoint is still waiting
\* in receive_text.
ws_drop(ch) ==
    /\ ws[ch].pc = "receive" /\ ws[ch].alive
    /\ ws' = [ws EXCEPT ![ch].alive = FALSE]
    /\ UNCHANGED <<conversations, messages, customers, events, req,
                   active_connections, agent_viewing, inbox, online>>

\* The cleanup that does not pass the agent of the connection
ws_disconnect_NoAgent(ch) ==
    /\ ws[ch].pc = "receive"
    /\ disconnect(ch, 0)
    /\ ws' = [ws EXCEPT ![ch] = Over([ws[ch] EXCEPT !.alive = FALSE], ch)]
    /\ UNCHANGED <<conversations, messages, customers, events, req, inbox>>

\* websocket.py:69-70: receive_text raises WebSocketDisconnect (the client
\* closed, or the transport is gone)
ws_disconnect(ch) ==
    /\ ws[ch].pc = "receive"
    /\ disconnect(ch, ws[ch].agent_id)
    /\ ws' = [ws EXCEPT ![ch] = Over([ws[ch] EXCEPT !.alive = FALSE], ch)]
    /\ UNCHANGED <<conversations, messages, customers, events, req, inbox>>

\* ------------------------------------------------------------------- init
SeedRows == [id : {1}, customer_id : {1}, agent_id : {0} \cup Agents,
             status : MessageStatus, priority : MessagePriority]

Init ==
    /\ conversations \in {<<row>> : row \in SeedRows}
    /\ messages = <<>>
    /\ customers = SeedCustomers
    /\ events = <<>>
    /\ req = [r \in Requests |-> Idle]
    /\ active_connections = {}
    /\ agent_viewing = [a \in Agents |-> {}]
    /\ ws = [ch \in Channels |-> NoSocket]
    /\ inbox = [ch \in Channels |-> <<>>]
    /\ online = [a \in Agents |-> FALSE]

Next ==
    \E r \in Requests :
        \/ assign_read(r)
        \/ assign_commit(r)
        \/ assign_broadcast(r)
        \/ release_read(r)
        \/ release_commit(r)
        \/ release_broadcast(r)
        \/ agent_message_read(r)
        \/ agent_message_commit(r)
        \/ agent_message_broadcast(r)

\* Claim, release and agent messages, concurrently.  None of them reads or
\* writes the priority: two seeded levels show any write of it.
InitOwn == Init /\ conversations[1].priority \in {MEDIUM, URGENT}

Spec == InitOwn /\ [][Next]_vars

\* Customer message intake alone: both entry points, concurrently.
NextMsg ==
    \E r \in Requests :
        \/ customer_message_find(r)
        \/ external_message_read(r)
        \/ external_message_customer(r)
        \/ external_message_find(r)
        \/ customer_message_create(r)
        \/ customer_message_refresh(r)
        \/ customer_message_announce(r)
        \/ customer_message_commit(r)
        \/ customer_message_broadcast(r)

\* No step of the intake reads the owner: the seeded conversation is unowned.
InitMsg == Init /\ conversations[1].agent_id = 0

SpecMsg == InitMsg /\ [][NextMsg]_vars

\* Customer message intake for a customer who already has two OPEN or
\* IN_PROGRESS conversations (two first messages that both found none leave
\* such a pair, and so does an update that reopens a second conversation).
DuplicateRows ==
    {<<[id |-> 1, customer_id |-> 1, agent_id |-> 0, status |-> s1, priority |-> p],
       [id |-> 2, customer_id |-> 1, agent_id |-> 0, status |-> s2, priority |-> p]>> :
        s1 \in {OPEN, IN_PROGRESS}, s2 \in {OPEN, IN_PROGRESS}, p \in {LOW, URGENT}}

InitDup ==
    /\ conversations \in DuplicateRows
    /\ messages = <<>>
    /\ customers = SeedCustomers
    /\ events = <<>>
    /\ req = [r \in Requests |-> Idle]
    /\ active_connections = {}
    /\ agent_viewing = [a \in Agents |-> {}]
    /\ ws = [ch \in Channels |-> NoSocket]
    /\ inbox = [ch \in Channels |-> <<>>]
    /\ online = [a \in Agents |-> FALSE]

SpecDup == InitDup /\ [][NextMsg]_vars

\* Updates and agent messages, concurrently, on a conversation of any status.
NextUpd ==
    \E r \in Requests :
        \/ update_read(r)
        \/ update_commit(r)
        \/ update_refresh(r)
        \/ update_broadcast(r)
        \/ agent_message_read(r)
        \/ agent_message_commit(r)
        \/ agent_message_broadcast(r)

InitUpd == Init /\ conversations[1].priority = MEDIUM /\ conversations[1].agent_id \in {0, 1}

SpecUpd == InitUpd /\ [][NextUpd]_vars

\* Connections that come and go while customers' messages create
\* conversations and are stored; the customer's earlier conversation is
\* RESOLVED.
NextFeed ==
    \/ \E ch \in Channels :
          \/ ws_connect(ch)
          \/ ws_disconnect(ch)
    \/ \E r \in Requests :
          \/ customer_message_find(r)
          \/ customer_message_create(r)
          \/ customer_message_refresh(r)
          \/ customer_message_announce(r)
          \/ customer_message_commit(r)
          \/ customer_message_broadcast(r)

InitFeed ==
    /\ Init
    /\ conversations[1] = [id |-> 1, customer_id |-> 1, agent_id |-> 0,
                           status |-> RESOLVED, priority |-> MEDIUM]

SpecFeed == InitFeed /\ [][NextFeed]_vars

\* Every HTTP handler, concurrently, on a conversation that is OPEN.
NextAll ==
    \E r \in Requests :
        \/ assign_read(r)
        \/ assign_commit(r)
        \/ assign_broadcast(r)
        \/ release_read(r)
        \/ release_commit(r)
        \/ release_broadcast(r)
        \/ agent_message_read(r)
        \/ agent_message_commit(r)
        \/ agent_message_broadcast(r)
        \/ update_read(r)
        \/ update_commit(r)
        \/ update_refresh(r)
        \/ update_broadcast(r)
        \/ customer_message_find(r)
        \/ external_message_read(r)
        \/ external_message_customer(r)
        \/ external_message_find(r)
        \/ customer_message_create(r)
        \/ customer_message_refresh(r)
        \/ customer_message_announce(r)
        \/ customer_message_commit(r)
        \/ customer_message_broadcast(r)

InitAll ==
    /\ Init
    /\ conversations[1].status = OPEN /\ conversations[1].priority = MEDIUM
    /\ conversations[1].agent_id \in {0, 1}

SpecAll == InitAll /\ [][NextAll]_vars

\* One conversation, unowned, for the specifications of the connection manager
InitHub ==
    /\ Init
    /\ conversations[1] = [id |-> 1, customer_id |-> 1, agent_id |-> 0,
                           status |-> OPEN, priority |-> MEDIUM]

\* Connections that come and go while claims broadcast their events.
NextHub ==
    \/ \E ch \in Channels :
          \/ ws_connect(ch)
          \/ ws_drop(ch)
          \/ ws_disconnect(ch)
    \/ \E r \in Requests :
          \/ assign_read(r)
          \/ assign_commit(r)
          \/ assign_broadcast(r)

SpecHub == InitHub /\ [][NextHub]_vars

\* The websocket endpoints alone: connections and the frames of their clients.
NextWs ==
    \E ch \in Channels :
        \/ ws_connect(ch)
        \/ ws_receive(ch)
        \/ ws_drop(ch)
        \/ ws_disconnect(ch)

SpecWs == InitHub /\ [][NextWs]_vars

\* ====================================================================
\* Properties
\* ====================================================================
\* The order of the levels the specification states
Level(p) ==
    CASE p = LOW -> 1
      [] p = MEDIUM -> 2
      [] p = HIGH -> 3
      [] p = URGENT -> 4

MaxPriority(p, q) == IF Level(q) > Level(p) THEN q ELSE p

\* Request r is a finished call of op
Finished(r, op) == req[r].op = op /\ req[r].pc = "done"

\* Request r, a call of op, takes the step that ends it with code
Ends(r, op, code) ==
    /\ req[r].pc # "done"
    /\ req'[r].pc = "done" /\ req'[r].op = op /\ req'[r].code = code

\* Request r, a call of op, takes its commit step
Commits(r, op) ==
    /\ req[r].op = op /\ req[r].pc = "commit"
    /\ req'[r].pc = "broadcast"

\* Nothing stored and nothing broadcast changes in the step
NoEffect == UNCHANGED <<conversations, messages, customers, events>>

\* C1: two claims without force by distinct agents that both found the
\* conversation unowned: exactly one succeeds, the other gets 409 naming the
\* winner, and both never report success.
C1_OneClaimWins ==
    \A r1, r2 \in Requests :
        ( /\ r1 # r2
          /\ Finished(r1, "assign_conversation") /\ Finished(r2, "assign_conversation")
          /\ ~req[r1].force /\ ~req[r2].force
          /\ req[r1].conversation_id = req[r2].conversation_id
          /\ req[r1].agent_id \in Agents /\ req[r2].agent_id \in Agents
          /\ req[r1].agent_id # req[r2].agent_id
          /\ req[r1].conv.id # 0 /\ req[r1].conv.agent_id = 0
          /\ req[r2].conv.id # 0 /\ req[r2].conv.agent_id = 0 )
        => \/ req[r1].code = 200 /\ req[r2].code = 409 /\ req[r2].detail = req[r1].agent_id
           \/ req[r2].code = 200 /\ req[r1].code = 409 /\ req[r1].detail = req[r2].agent_id

\* C2: a customer message accepted on an existing open or in-progress
\* conversation never leaves the conversation at a lower priority than it had.
C2_NeverLowered ==
    [][\A r \in Requests :
          ( /\ Commits(r, "send_customer_message") \/ Commits(r, "receive_external_message")
            /\ ~req[r].created )
          => Level(conversations'[req[r].conv.id].priority)
                >= Level(conversations[req[r].conv.id].priority)]_vars

\* C3: a customer message classified c accepted on an existing open or
\* in-progress conversation at priority p leaves it at max(p, c).
C3_RaisedToMax ==
    [][\A r \in Requests :
          ( /\ Commits(r, "send_customer_message") \/ Commits(r, "receive_external_message")
            /\ ~req[r].created
            /\ req[r].conv.priority = conversations[req[r].conv.id].priority )
          => conversations'[req[r].conv.id].priority
                = MaxPriority(req[r].conv.priority, req[r].priority)]_vars

\* C4: an existing agent's message on a conversation it found unowned is
\* accepted, makes the agent the owner and moves OPEN to IN_PROGRESS; a message
\* by an agent who finds the conversation owned by another agent gets 403.
C4_FirstResponderOwns ==
    [][\A r \in Requests :
          /\ ( Commits(r, "send_agent_message") /\ req[r].conv.agent_id = 0 )
             => /\ conversations'[req[r].conversation_id].agent_id = req[r].agent_id
                /\ req[r].conv.status = OPEN
                      => conversations'[req[r].conversation_id].status = IN_PROGRESS
                /\ Len(messages') = Len(messages) + 1
          /\ ( /\ req'[r].op = "send_agent_message" /\ req'[r].pc = "done"
               /\ req'[r].conv.id # 0 /\ req'[r].agent_id \in Agents )
             => /\ req'[r].conv.agent_id = 0 => req'[r].code = 200
                /\ req'[r].conv.agent_id \notin {0, req'[r].agent_id} => req'[r].code = 403]_vars

C4_Witness ==
    \E r1, r2 \in Requests :
        /\ Finished(r1, "send_agent_message") /\ req[r1].code = 200
        /\ req[r1].conv.agent_id = 0 /\ req[r1].conv.status = OPEN
        /\ Finished(r2, "send_agent_message") /\ req[r2].code = 403
        /\ req[r2].conversation_id = req[r1].conversation_id
        /\ req[r2].agent_id # req[r1].agent_id /\ req[r2].agent_id \in Agents
        /\ req[r2].conv.agent_id = req[r1].agent_id
        /\ conversations[req[r1].conversation_id].agent_id = req[r1].agent_id
        /\ conversations[req[r1].conversation_id].status = IN_PROGRESS

\* C5: two agent messages by distinct agents that both found the conversation
\* unowned: at most one of them is accepted.
C5_OneFirstResponder ==
    \A r1, r2 \in Requests :
        ( /\ r1 # r2
          /\ Finished(r1, "send_agent_message") /\ Finished(r2, "send_agent_message")
          /\ req[r1].conversation_id = req[r2].conversation_id
          /\ req[r1].agent_id \in Agents /\ req[r2].agent_id \in Agents
          /\ req[r1].agent_id # req[r2].agent_id
          /\ req[r1].conv.id # 0 /\ req[r1].conv.agent_id = 0
          /\ req[r2].conv.id # 0 /\ req[r2].conv.agent_id = 0 )
        => ~(req[r1].code = 200 /\ req[r2].code = 200)

\* C6: an agent message on a conversation owned by another agent ends with
\* 403, and the step that rejects it stores nothing and broadcasts nothing.
C6_ForbiddenMessageNoEffect ==
    [][\A r \in Requests :
          /\ ( /\ req[r].op = "idle" /\ req'[r].op = "send_agent_message"
               /\ req'[r].conv.id # 0
               /\ req'[r].conv.agent_id \notin {0, req'[r].agent_id} )
             => Ends(r, "send_agent_message", 403)
          /\ Ends(r, "send_agent_message", 403) => NoEffect]_vars

C6_Witness ==
    \E r \in Requests :
        /\ Finished(r, "send_agent_message") /\ req[r].code = 403
        /\ req[r].conv.agent_id \in Agents /\ req[r].agent_id \in Agents
        /\ conversations[req[r].conversation_id] = req[r].conv
        /\ messages = <<>> /\ events = <<>>

\* C7: a claim without force on a conversation owned by another agent A ends
\* with 409 naming A, and the step that rejects it changes no owner and
\* broadcasts nothing.
C7_ConflictNamesOwner ==
    [][\A r \in Requests :
          /\ ( /\ req[r].op = "idle" /\ req'[r].op = "assign_conversation"
               /\ ~req'[r].force
               /\ req'[r].conv.id # 0
               /\ req'[r].conv.agent_id \in Agents \ {req'[r].agent_id} )
             => /\ Ends(r, "assign_conversation", 409)
                /\ req'[r].detail = req'[r].conv.agent_id
          /\ Ends(r, "assign_conversation", 409) => NoEffect]_vars

C7_Witness ==
    \E r \in Requests :
        /\ Finished(r, "assign_conversation") /\ req[r].code = 409
        /\ ~req[r].force
        /\ req[r].conv.agent_id \in Agents /\ req[r].agent_id \in Agents
        /\ req[r].detail = req[r].conv.agent_id
        /\ conversations[req[r].conversation_id].agent_id = req[r].conv.agent_id
        /\ events = <<>>

\* C8: a claim with force by an existing agent B on a conversation owned by
\* another agent A is not rejected, its commit makes B the owner, and it ends
\* with success right after broadcasting ConversationUpdated naming B.
C8_ForcedClaimTransfers ==
    [][\A r \in Requests :
          LET forced == /\ req'[r].op = "assign_conversation" /\ req'[r].force
                        /\ req'[r].agent_id \in Agents
                        /\ req'[r].conv.id # 0
                        /\ req'[r].conv.agent_id \in Agents \ {req'[r].agent_id} IN
          /\ ( forced /\ req[r].op = "idle" ) => req'[r].pc = "commit"
          /\ ( forced /\ Commits(r, "assign_conversation") )
                => conversations'[req[r].conversation_id].agent_id = req[r].agent_id
          /\ ( forced /\ req[r].pc = "broadcast" /\ req'[r] # req[r] )
                => /\ Ends(r, "assign_conversation", 200)
                   /\ events' = Append(events, Event("ConversationUpdated", req[r].conversation_id,
                                                     req[r].agent_id, 0, "", ""))]_vars

C8_Witness ==
    \E r \in Requests :
        /\ Finished(r, "assign_conversation") /\ req[r].code = 200 /\ req[r].force
        /\ req[r].conv.agent_id \in Agents \ {req[r].agent_id}
        /\ conversations[req[r].conversation_id].agent_id = req[r].agent_id
        /\ events # <<>>
        /\ events[Len(events)].type = "ConversationUpdated"
        /\ events[Len(events)].agent_id = req[r].agent_id

\* C9: a release by an agent who is not the owner the handler found, the
\* conversation being unowned included, ends with 403, and the step that
\* rejects it changes no conversation and broadcasts nothing.
C9_ReleaseByNonOwnerForbidden ==
    [][\A r \in Requests :
          /\ ( /\ req[r].op = "idle" /\ req'[r].op = "release_conversation"
               /\ req'[r].conv.id # 0
               /\ req'[r].conv.agent_id # req'[r].agent_id )
             => Ends(r, "release_conversation", 403)
          /\ Ends(r, "release_conversation", 403) => NoEffect]_vars

C9_Witness ==
    \E r \in Requests :
        /\ Finished(r, "release_conversation") /\ req[r].code = 403
        /\ req[r].conv.id # 0 /\ req[r].conv.agent_id = 0
        /\ conversations[req[r].conversation_id].agent_id = 0
        /\ events = <<>>

\* C10: the commit of a release by the owner leaves the conversation unowned
\* with the status and the priority it had, and the release ends with success.
C10_ReleaseKeepsStatus ==
    [][\A r \in Requests :
          /\ Commits(r, "release_conversation")
             => /\ conversations'[req[r].conversation_id].agent_id = 0
                /\ conversations'[req[r].conversation_id].status
                      = conversations[req[r].conversation_id].status
                /\ conversations'[req[r].conversation_id].priority
                      = conversations[req[r].conversation_id].priority
          /\ ( /\ req[r].op = "idle" /\ req'[r].op = "release_conversation"
               /\ req'[r].conv.id # 0 /\ req'[r].conv.agent_id = req'[r].agent_id )
             => req'[r].pc = "commit"
          /\ ( req[r].op = "release_conversation" /\ req[r].pc = "broadcast"
               /\ req'[r] # req[r] )
             => Ends(r, "release_conversation", 200)]_vars

C10_Witness ==
    \E r \in Requests :
        /\ Finished(r, "release_conversation") /\ req[r].code = 200
        /\ req[r].conv.status = RESOLVED
        /\ conversations[req[r].conversation_id].agent_id = 0
        /\ conversations[req[r].conversation_id].status = RESOLVED
        /\ conversations[req[r].conversation_id].priority = req[r].conv.priority

\* C11: a claim, forced or not, by the agent the handler finds to be the owner
\* is not rejected, its commit leaves every conversation as stored, and it ends
\* with success.
C11_OwnerClaimIdempotent ==
    [][\A r \in Requests :
          /\ ( /\ req[r].op = "idle" /\ req'[r].op = "assign_conversation"
               /\ req'[r].conv.id # 0 /\ req'[r].conv.agent_id = req'[r].agent_id )
             => req'[r].pc = "commit"
          /\ ( Commits(r, "assign_conversation") /\ req[r].conv.agent_id = req[r].agent_id )
             => conversations' = conversations
          /\ ( /\ req[r].op = "assign_conversation" /\ req[r].pc = "broadcast"
               /\ req[r].conv.agent_id = req[r].agent_id /\ req'[r] # req[r] )
             => Ends(r, "assign_conversation", 200)]_vars

C11_Witness ==
    \E r1, r2 \in Requests :
        /\ r1 # r2
        /\ Finished(r1, "assign_conversation") /\ req[r1].code = 200
        /\ req[r1].conv.agent_id = 0
        /\ Finished(r2, "assign_conversation") /\ req[r2].code = 200 /\ ~req[r2].force
        /\ req[r2].conversation_id = req[r1].conversation_id
        /\ req[r2].agent_id = req[r1].agent_id
        /\ req[r2].conv.agent_id = req[r2].agent_id
        /\ conversations[req[r2].conversation_id] = req[r2].conv

\* C12: every finished operation that wrote a new owner (claim, release, an
\* agent message on a conversation found unowned) has had a ConversationUpdated
\* event with that conversation and that owner handed to the manager.
C12_OwnerChangeAnnounced ==
    \A r \in Requests :
        ( /\ req[r].pc = "done" /\ req[r].code = 200
          /\ \/ req[r].op \in {"assign_conversation", "release_conversation"}
             \/ req[r].op = "send_agent_message" /\ req[r].conv.agent_id = 0 )
        => \E i \in 1..Len(events) :
              /\ events[i].type = "ConversationUpdated"
              /\ events[i].conversation_id = req[r].conversation_id
              /\ events[i].agent_id
                    = IF req[r].op = "release_conversation" THEN 0 ELSE req[r].agent_id

C14_MalformedReported ==
    \A ch \in Channels :
        ( /\ ws[ch].data # NoFrame
          /\ InvalidJson(ws[ch].data) \/ RaisesAttributeError(ws[ch].data)
          /\ ws[ch].alive )
        => /\ ws[ch].pc = "receive"
           /\ \E i \in 1..Len(inbox[ch]) : inbox[ch][i].type = "error"

\* Channel ch reads a frame of the given type for conversation c in the step
Reads(ch, type, c) ==
    /\ ws'[ch].frames = ws[ch].frames + 1
    /\ ws'[ch].data = Frame("object", type, "object", c)

C16_DuplicateOpenAccepted ==
    [][\A r \in Requests :
          ( /\ req[r].pc \in {"idle", "find"} /\ req'[r] # req[r]
            /\ req'[r].op \in {"send_customer_message", "receive_external_message"}
            /\ req'[r].customer_id \in customers
            /\ Cardinality(OpenConversations(req'[r].customer_id)) > 1 )
          => /\ req'[r].pc = "commit"
             /\ req'[r].conv.id \in OpenConversations(req'[r].customer_id)]_vars

\* C17: a conversation whose status is CLOSED keeps that status in every step.
C17_ClosedIsTerminal ==
    [][\A c \in 1..Len(conversations) :
          conversations[c].status = CLOSED => conversations'[c].status = CLOSED]_vars

\* Request r, a customer message, takes the step from pc to next
Moves(r, pc, next) ==
    /\ IsCustomerMessage(r) /\ req[r].pc = pc
    /\ req'[r].pc = next

\* Conversations of the customer with the given status
ConversationsIn(customer_id, status) ==
    {c \in 1..Len(conversations) :
        conversations[c].customer_id = customer_id /\ conversations[c].status = status}

\* C18: once a customer's message has been accepted, none of the customer's
\* conversations is RESOLVED any more.
C18_ResolvedReopened ==
    \A r \in Requests :
        ( IsCustomerMessage(r) /\ req[r].pc = "done" /\ req[r].code = 200 )
        => ConversationsIn(req[r].customer_id, RESOLVED) = {}

\* Request r, a customer message, runs its open-conversation query in the step
Queries(r) ==
    /\ req[r].pc \in {"idle", "find"}
    /\ req'[r].op \in {"send_customer_message", "receive_external_message"}
    /\ req'[r].pc \in {"create", "commit"}

\* C18 as the code has it: no step of a customer message changes the status
\* of a stored conversation, and a message of a customer who has a RESOLVED
\* conversation and none that is OPEN or IN_PROGRESS goes on to insert a new
\* conversation and is stored in it.
C18_ResolvedStaysResolved ==
    [][\A r \in Requests :
          /\ \A c \in 1..Len(conversations) :
                conversations'[c].status = conversations[c].status
          /\ ( /\ Queries(r)
               /\ ConversationsIn(req'[r].customer_id, RESOLVED) # {}
               /\ ConversationsIn(req'[r].customer_id, OPEN) = {}
               /\ ConversationsIn(req'[r].customer_id, IN_PROGRESS) = {} )
             => req'[r].pc = "create"
          /\ ( Moves(r, "commit", "broadcast") /\ req[r].created )
             => /\ messages'[Len(messages')].conversation_id = req[r].conv.id
                /\ req[r].conv.id \notin ConversationsIn(req[r].customer_id, RESOLVED)]_vars

\* The customer's conversation was RESOLVED: the accepted message is in a new
\* OPEN conversation and the old one is still RESOLVED.
C18_Witness ==
    \E r \in Requests, m \in 1..Len(messages) :
        /\ IsCustomerMessage(r) /\ req[r].pc = "done" /\ req[r].code = 200 /\ req[r].created
        /\ conversations[1].status = RESOLVED
        /\ conversations[1].customer_id = req[r].customer_id
        /\ messages[m].conversation_id = req[r].conv.id
        /\ req[r].conv.id # 1
        /\ conversations[req[r].conv.id].status = OPEN

\* C19: a customer message whose query finds no OPEN or IN_PROGRESS
\* conversation of the customer inserts a conversation that is OPEN, unowned
\* and of the classified priority, and its NewConversation event carries OPEN
\* and the classified priority.
C19_NewConversationAtLevel ==
    [][\A r \in Requests :
          /\ Moves(r, "create", "refresh")
             => /\ OpenConversations(req[r].customer_id) = {} \/ ~req[r].created
                /\ conversations' = Append(conversations,
                      [id |-> Len(conversations) + 1, customer_id |-> req[r].customer_id,
                       agent_id |-> 0, status |-> OPEN, priority |-> req[r].priority])
          /\ Moves(r, "announce", "commit")
             => events' = Append(events, Event("NewConversation", req[r].conv.id, 0,
                                               req[r].customer_id, req[r].priority, OPEN))]_vars

\* C19 as the code has it: the conversation is inserted OPEN, unowned and at
\* the classified priority; the handler reads the row back, and its
\* NewConversation event carries the status and priority it read, which are
\* OPEN and the classified priority when the row is still as inserted.
C19_NewConversationAsReadBack ==
    [][\A r \in Requests :
          /\ Moves(r, "create", "refresh")
             => /\ req[r].conv = NoRow
                /\ conversations' = Append(conversations,
                      [id |-> Len(conversations) + 1, customer_id |-> req[r].customer_id,
                       agent_id |-> 0, status |-> OPEN, priority |-> req[r].priority])
          /\ Moves(r, "refresh", "announce")
             => /\ req'[r].conv = conversations[req[r].conv.id]
                /\ conversations[req[r].conv.id] = req[r].conv
                   => req'[r].conv.status = OPEN /\ req'[r].conv.priority = req[r].priority
          /\ Moves(r, "announce", "commit")
             => events' = Append(events, Event("NewConversation", req[r].conv.id, 0,
                                               req[r].customer_id, req[r].conv.priority,
                                               req[r].conv.status))]_vars

\* A message created a conversation and announced it at its classified
\* priority.
C19_Witness ==
    \E r \in Requests, i \in 1..Len(events) :
        /\ IsCustomerMessage(r) /\ req[r].pc = "done" /\ req[r].code = 200 /\ req[r].created
        /\ events[i].type = "NewConversation"
        /\ events[i].conversation_id = req[r].conv.id
        /\ events[i].status = OPEN
        /\ events[i].priority = req[r].priority
        /\ conversations[req[r].conv.id].agent_id = 0

\* C22: the cleanup of an endpoint ends it and leaves the registry without
\* its channel, whether or not the channel was still registered; every other
\* channel keeps its registration, its endpoint and its events.  A channel
\* whose endpoint is reading and whose transport works is registered, and
\* only channels whose endpoint is reading are.
C22_RemovalIdempotent ==
    [][/\ \A ch \in Channels :
             ( ws[ch].pc = "receive" /\ ws'[ch].pc = "done" )
             => /\ active_connections' = active_connections \ {ch}
                /\ ws'[ch].cleanup = IF ch \in active_connections THEN "removed" ELSE "absent"
                /\ \A other \in Channels \ {ch} :
                      ws'[other] = ws[other] /\ inbox'[other] = inbox[other]
       /\ \A ch \in Channels :
             /\ ( ws'[ch].pc = "receive" /\ ws'[ch].alive ) => ch \in active_connections'
             /\ ch \in active_connections' => ws'[ch].pc = "receive"]_vars

\* A failed broadcast had removed the first channel before its endpoint's
\* own cleanup ran; the second channel is still registered.
C22_Witness ==
    \E gone, live \in Channels :
        /\ gone # live
        /\ ws[gone].pc = "done" /\ ws[gone].cleanup = "absent"
        /\ ws[gone].agent_id = ws[live].agent_id
        /\ live \in active_connections /\ ws[live].pc = "receive"
        /\ Len(inbox[live]) > Len(inbox[gone])

C23_UnknownTypeIgnored ==
    [][\A ch \in Channels :
          ( /\ ws'[ch].frames = ws[ch].frames + 1
            /\ ws'[ch].data = Frame("object", "other", "absent", 0) )
          => /\ inbox' = inbox
             /\ active_connections' = active_connections
             /\ agent_viewing' = agent_viewing
             /\ ws'[ch].pc = "receive" /\ ws'[ch].alive
             /\ \A other \in Channels \ {ch} : ws'[other] = ws[other]]_vars

\* The endpoint has answered a ping and then read a frame of unrecognised
\* type: its events are still the confirmation and the pong.
C23_Witness ==
    \E ch \in Channels :
        /\ ws[ch].frames = 2 /\ ws[ch].pc = "receive"
        /\ ws[ch].data = Frame("object", "other", "absent", 0)
        /\ Len(inbox[ch]) = 2 /\ inbox[ch][2].type = "pong"
        /\ ch \in active_connections

\* C26: once every request has ended, the last ConversationUpdated event a
\* registered channel was sent for a conversation names the owner stored for
\* that conversation.
C26_LastEventNamesOwner ==
    ( \A r \in Requests : req[r].pc \in {"idle", "done"} )
    => \A ch \in active_connections : \A i \in 1..Len(inbox[ch]) :
          ( /\ inbox[ch][i].type = "ConversationUpdated"
            /\ \A j \in (i + 1)..Len(inbox[ch]) :
                  ~ ( /\ inbox[ch][j].type = "ConversationUpdated"
                      /\ inbox[ch][j].conversation_id = inbox[ch][i].conversation_id ) )
          => inbox[ch][i].agent_id = conversations[inbox[ch][i].conversation_id].agent_id

\* C28: no customer has more than one conversation that is OPEN or
\* IN_PROGRESS.
C28_OneOpenPerCustomer ==
    \A k \in customers : Cardinality(OpenConversations(k)) <= 1

\* C29: the owner stored for a conversation is none or an agent that has a
\* row in the agents table.
C29_OwnerExists ==
    \A c \in 1..Len(conversations) : conversations[c].agent_id \in {0} \cup Agents

\* C30: the commit of an accepted agent message leaves the stored priority as
\* it is, leaves a stored owner as it is, makes the sender owner of a
\* conversation stored as unowned, and leaves a stored status other than OPEN
\* as it is.
C30_AgentMessageFrame ==
    [][\A r \in Requests :
          Commits(r, "send_agent_message")
          => LET c == req[r].conversation_id IN
             /\ conversations'[c].priority = conversations[c].priority
             /\ conversations[c].agent_id # 0
                   => conversations'[c].agent_id = conversations[c].agent_id
             /\ conversations[c].status # OPEN
                   => conversations'[c].status = conversations[c].status
             /\ conversations'[c].status \in {conversations[c].status, IN_PROGRESS}]_vars

\* Request r starts in the step, as a call of one of ops
Starts(r, ops) == req[r].op = "idle" /\ req'[r].op \in ops

\* C25: the step that ends a request with 404 changes no conversation, stores
\* no message or customer and sends no event; a claim, release or agent
\* message on a conversation without a row, and a customer message for a
\* customer id without a row, end with 404; a claim or agent message that
\* names an agent without a row is never accepted.
C25_NotFoundNoEffect ==
    [][\A r \in Requests :
          /\ ( req[r].pc # "done" /\ req'[r].pc = "done" /\ req'[r].code = 404 )
             => NoEffect /\ UNCHANGED hub
          /\ ( /\ Starts(r, {"assign_conversation", "release_conversation",
                             "send_agent_message"})
               /\ SelectConversation(req'[r].conversation_id) = NoRow )
             => req'[r].pc = "done" /\ req'[r].code = 404
          /\ ( /\ Starts(r, {"assign_conversation", "send_agent_message"})
               /\ req'[r].agent_id \notin Agents )
             => req'[r].pc = "done" /\ req'[r].code \in {403, 404, 409}
          /\ ( /\ Starts(r, {"send_customer_message"})
               /\ req'[r].customer_id \notin customers )
             => req'[r].pc = "done" /\ req'[r].code = 404]_vars

\* A forced claim naming an agent without a row ended with 404 on an existing
\* conversation, and a customer message for a customer id without a row
\* ended with 404: nothing was stored or sent.
C25_Witness ==
    \E r1, r2 \in Requests :
        /\ Finished(r1, "assign_conversation") /\ req[r1].code = 404
        /\ req[r1].force /\ req[r1].conv.id # 0 /\ req[r1].agent_id \notin Agents
        /\ Finished(r2, "send_customer_message") /\ req[r2].code = 404
        /\ req[r2].customer_id \notin customers
        /\ messages = <<>> /\ events = <<>>
        /\ conversations = <<req[r1].conv>>

\* C27: the stored owner of a conversation is removed or replaced only by the
\* commit of a release issued by that owner or of a claim with force.
C27_OwnerLeavesByReleaseOrForce ==
    [][\A c \in 1..Len(conversations) :
          ( /\ conversations[c].agent_id # 0
            /\ conversations'[c].agent_id # conversations[c].agent_id )
          => \E r \in Requests :
                /\ req[r].conversation_id = c
                /\ \/ /\ Commits(r, "release_conversation")
                      /\ req[r].agent_id = conversations[c].agent_id
                   \/ /\ Commits(r, "assign_conversation")
                      /\ req[r].force]_vars

\* The events of a channel's inbox that were broadcast (the confirmation of
\* the connection is sent to the channel alone).
Broadcasts(box) == SelectSeq(box, LAMBDA e : e.type # "connected")

\* box is log with some events left out: same events, same order.
RECURSIVE Embeds(_, _)
Embeds(log, box) ==
    IF box = <<>> THEN TRUE
    ELSE IF log = <<>> THEN FALSE
    ELSE IF Head(log) = Head(box) THEN Embeds(Tail(log), Tail(box))
    ELSE Embeds(Tail(log), box)

\* The number of NewConversation events for conversation c in box.
Announced(box, c) ==
    Cardinality({i \in 1..Len(box) : /\ box[i].type = "NewConversation"
                                     /\ box[i].conversation_id = c})

\* C21: each channel's broadcast events are, in the same order, events the
\* manager was asked to send; a request that created a conversation asks for
\* its NewMessage event only after the NewConversation event of that
\* conversation was asked for, exactly once, and once that NewMessage event
\* is sent no channel receives a NewConversation event of the conversation.
C21_DeliveredInOrder ==
    [][/\ \A ch \in Channels : Embeds(events', Broadcasts(inbox'[ch]))
       /\ \A r \in Requests :
             ( /\ IsCustomerMessage(r) /\ req[r].created
               /\ req[r].pc = "broadcast" /\ req'[r].pc = "done" )
             => /\ Announced(events, req[r].conv.id) = 1
                /\ events'[Len(events')].type = "NewMessage"
                /\ events'[Len(events')].conversation_id = req[r].conv.id
       /\ \A r \in Requests :
             ( /\ IsCustomerMessage(r) /\ req[r].created
               /\ req[r].pc = "done" /\ req[r].code = 200 )
             => \A ch \in Channels :
                   Announced(inbox'[ch], req[r].conv.id)
                      = Announced(inbox[ch], req[r].conv.id)]_vars

\* Two requests created a conversation each and announced both before either
\* sent its message; a channel connected throughout received the four events
\* in the order they were handed to the manager.
C21_Witness ==
    \E ch \in Channels, r1, r2 \in Requests :
        /\ r1 # r2
        /\ req[r1].created /\ req[r1].pc = "done" /\ req[r1].code = 200
        /\ req[r2].created /\ req[r2].pc = "done" /\ req[r2].code = 200
        /\ Len(events) = 4
        /\ events[1].type = "NewConversation" /\ events[2].type = "NewConversation"
        /\ events[1].conversation_id = req[r1].conv.id
        /\ events[2].conversation_id = req[r2].conv.id
        /\ events[3].type = "NewMessage" /\ events[3].conversation_id = req[r2].conv.id
        /\ events[4].type = "NewMessage" /\ events[4].conversation_id = req[r1].conv.id
        /\ ch \in active_connections
        /\ Broadcasts(inbox[ch]) = events

\* The operations that store a message
MessageOps == {"send_agent_message", "send_customer_message", "receive_external_message"}

\* The number of NewMessage events in log
NewMessages(log) == Cardinality({i \in 1..Len(log) : log[i].type = "NewMessage"})

\* The message row that call stores
StoredBy(call) ==
    IF call.op = "send_agent_message"
    THEN Message(call.conversation_id, 0, call.agent_id, FALSE, MEDIUM)
    ELSE Message(call.conv.id, call.customer_id, 0, TRUE, call.priority)

\* The requests that stored a message and were answered with success
Accepted == {r \in Requests : /\ req[r].op \in MessageOps
                              /\ req[r].pc = "done" /\ req[r].code = 200}

\* C31: a message request answered with success hands exactly one NewMessage
\* event to the manager, for the conversation of its message, in a step after
\* its commit in which nothing is stored, the message row being stored
\* already; no other step adds a NewMessage event, so the events count the
\* accepted messages and a rejected message has none.
C31_OneBroadcastPerMessage ==
    [][/\ \A r \in Requests :
             ( /\ req[r].op \in MessageOps
               /\ req[r].pc # "done" /\ req'[r].pc = "done" /\ req'[r].code = 200 )
             => /\ req[r].pc = "broadcast"
                /\ Len(events') = Len(events) + 1
                /\ SubSeq(events', 1, Len(events)) = events
                /\ events'[Len(events')].type = "NewMessage"
                /\ events'[Len(events')].conversation_id = StoredBy(req[r]).conversation_id
                /\ \E i \in 1..Len(messages) : messages[i] = StoredBy(req[r])
                /\ UNCHANGED <<conversations, messages, customers>>
       /\ NewMessages(events') # NewMessages(events)
             => \E r \in Requests :
                   /\ req[r].op \in MessageOps
                   /\ req[r].pc = "broadcast" /\ req'[r].pc = "done" /\ req'[r].code = 200
       /\ NewMessages(events') = Cardinality(Accepted')
       /\ Len(messages') >= NewMessages(events')]_vars

\* A customer's message through the external entry point was accepted and an
\* agent's message was refused with 403: one message row, one NewMessage
\* event, for the customer's message.
C31_Witness ==
    \E r1, r2 \in Requests :
        /\ Finished(r1, "receive_external_message") /\ req[r1].code = 200
        /\ Finished(r2, "send_agent_message") /\ req[r2].code = 403
        /\ messages = <<StoredBy(req[r1])>>
        /\ NewMessages(events) = 1
        /\ events[Len(events)].type = "NewMessage"
        /\ events[Len(events)].conversation_id = req[r1].conv.id
        /\ events[Len(events)].customer_id = req[r1].customer_id

====
